---- MODULE Spec2Model ----
(***************************************************************************)
(* promptly: a Discord bot relaying a user's messages to a chat-completion *)
(* backend under the user's stored prompt and encrypted API key            *)
(* (src/index.js).  The model follows the event handlers of index.js: one  *)
(* action per slash command, one per continuation after an await, one per  *)
(* collector event.                                                        *)
(***************************************************************************)
EXTENDS Integers, Sequences, FiniteSets, TLC

\* ------------------------------------------------------------------ bounds
MaxInteractions == 2      \* slash commands received in one run
MaxTasks == 1             \* 'collect' callbacks in flight at a time
MaxTicks == 6             \* minutes the clock of TimedSpec runs
MaxSessionTasks == 2      \* 'collect' callbacks in flight at a time in TimedSpec

\* ------------------------------------------------------- program constants
charLimit == 4000         \* index.js:261
IV_LENGTH == 16           \* index.js:19
ReplyLifetime == 60000    \* index.js:187, ms until the announcement is withdrawn
CollectorTime == 300000   \* index.js:191, ms a collector collects

\* ------------------------------------------------------------ input domains
Users == {"u1", "u2"}
Channels == {"c1", "c2"}
CommandChannels == {"c1"}     \* the channel the commands of a run are issued in
NoChannel == "none"

\* A prompt is represented by its character count (prompt.length); two
\* prompts of different counts are different strings.  UndefinedPrompt is
\* the null of an option that was not given and the undefined of a missing
\* property.
UndefinedPrompt == -1
PromptInputs == {charLimit, charLimit + 1}
Truthy(prompt) == prompt > 0

RawKeys == {"sk-abc"}
ENCRYPTION_KEY == "K32"                 \* process.env.ENCRYPTION_KEY
ForeignKey == "K32-old"                 \* the key of an earlier deployment
IVs == {"iv1"}                          \* values crypto.randomBytes may draw

\* --------------------------------------------------------------- SecretCodec
\* A token string is represented by the list of its ':'-separated segments,
\* which is what text.split(':') returns; NoToken (no segment at all) is the
\* undefined of a missing openaiKey property.
NoToken == << >>
Hex(bytes) == [hex |-> bytes]
Cbc(key, iv, text) == [key |-> key, iv |-> iv, text |-> text]
DecryptError == "Failed to decrypt text"

\* The 'utf8' encoding of cipher.update(text, 'utf8', 'hex') and the 'utf8'
\* decoding of decipher.update(encryptedText, 'hex', 'utf8').  A string is
\* written with its UTF-16 code units, <D800> and <DC00> being a high and a
\* low surrogate; the encoder writes a surrogate that has no partner as
\* U+FFFD, so the bytes are those of the string ToWellFormed gives.
ToWellFormed(text) ==
    CASE text = "<D800>"         -> "<FFFD>"
      [] text = "sk-<DC00>abc"   -> "sk-<FFFD>abc"
      [] OTHER                   -> text

Utf8Encode(text) == [utf8 |-> ToWellFormed(text)]
Utf8Decode(bytes) == bytes.utf8

encrypt(text, iv) ==
    <<Hex([len |-> IV_LENGTH, bytes |-> iv]),
      Hex(Cbc(ENCRYPTION_KEY, iv, Utf8Encode(text)))>>

decrypt(token) ==
    IF Len(token) < 2 THEN DecryptError
    ELSE LET iv == Head(token).hex
             encryptedText == Tail(token)
         IN  IF /\ Len(encryptedText) = 1
                /\ iv.len = IV_LENGTH
                /\ encryptedText[1].hex.key = ENCRYPTION_KEY
                /\ encryptedText[1].hex.iv = iv.bytes
             THEN Utf8Decode(encryptedText[1].hex.text)
             ELSE DecryptError

\* ----------------------------------------------------------------- UserStore
Fields == {"promptId", "openaiKey"}
EmptyRecord == [promptId |-> UndefinedPrompt, openaiKey |-> NoToken]

Present(rec, f) ==
    IF f = "promptId" THEN rec.promptId # UndefinedPrompt ELSE rec.openaiKey # NoToken

\* JSON.stringify(userData): properties that are absent are not written.
Stringify(ud) ==
    [u \in DOMAIN ud |-> [f \in {g \in Fields : Present(ud[u], g)} |-> ud[u][f]]]

\* JSON.parse of the store's content: a property that is not there reads as
\* undefined.
Parse(text) ==
    [u \in DOMAIN text |->
        [promptId  |-> IF "promptId" \in DOMAIN text[u] THEN text[u]["promptId"]
                       ELSE UndefinedPrompt,
         openaiKey |-> IF "openaiKey" \in DOMAIN text[u] THEN text[u]["openaiKey"]
                       ELSE NoToken]]

EmptyStore == [u \in {} |-> EmptyRecord]

\* Contents user_data.json may have when the process starts: none, a record
\* written by an earlier run, a record whose key was encrypted under the key
\* of an earlier deployment.
StoreWithKey ==
    Stringify([u \in {"u1"} |->
        [promptId |-> 1, openaiKey |-> encrypt("sk-abc", "iv0")]])

InitialStores ==
    { Stringify(EmptyStore),
      StoreWithKey,
      Stringify([u \in {"u1"} |->
          [promptId |-> 1,
           openaiKey |-> <<Hex([len |-> IV_LENGTH, bytes |-> "iv1"]),
                           Hex(Cbc(ForeignKey, "iv1", Utf8Encode("sk-abc")))>>]]) }

\* if (!userData[userId]) userData[userId] = {};
LazyInit(ud, u) ==
    IF u \in DOMAIN ud THEN ud
    ELSE [v \in DOMAIN ud \cup {u} |-> IF v = u THEN EmptyRecord ELSE ud[v]]

\* ------------------------------------------------------------------- state
VARIABLES
    userData,          \* the in-memory mapping user id -> record
    disk,              \* content of user_data.json
    ACTIVE_SESSIONS,   \* the set of user ids with an open chat session
    handlers,          \* one slot per received interaction
    nextId,            \* number of handler slots taken so far
    collectors,        \* the message collector each chat handler created
    tasks,             \* runs of the collector's 'collect' callback in flight
    timers,            \* the timers each chat handler has set and not yet seen fire
    clock,             \* ms since the process started
    out                \* what the last step sent, wrote, logged and let escape

vars == <<userData, disk, ACTIVE_SESSIONS, handlers, nextId, collectors, tasks,
          timers, clock, out>>

Ids == 1..MaxInteractions

NoKey == ""
IdleHandler ==
    [pc |-> "idle", user |-> "none", cmd |-> "none", channel |-> NoChannel,
     prompt |-> UndefinedPrompt, openaiKey |-> NoKey, content |-> Stringify(EmptyStore)]

\* A handler that has returned and whose locals nothing refers to any more.
DoneHandler == [IdleHandler EXCEPT !.pc = "done"]

NewHandler(u, cmd) == [IdleHandler EXCEPT !.pc = "run", !.user = u, !.cmd = cmd]

\* saveUserData() up to its await: the content is serialized when writeFile is
\* called.
StartSave(h, ud) == [h EXCEPT !.pc = "save", !.content = Stringify(ud)]

\* ------------------------------------------------------------ reply delivery
\* interaction.reply / m.reply either delivers or rejects.  "ok": delivered;
\* "fail": rejected, and the notice sent from the catch block is delivered;
\* "failfail": rejected, and the notice sent from the catch block is rejected
\* too, so the rejection leaves the handler.
Deliveries == {"ok", "fail", "failfail"}

\* out: the messages the last step sent (a kind and, where the text carries
\* one, the character count), the result of the write it completed, whether a
\* rejection left its callback uncaught, and the outcome of the backend
\* request it answered.
Msg(kind, n) == [kind |-> kind, n |-> n]

\* A line passed to logMessage: which line it is, and the values its template
\* interpolates (numbers that only count are left out).
Log(text, args) == [text |-> text, args |-> args]

\* `${err}` of a rejected Discord request, of a failed writeFile.
DiscordError == "DiscordAPIError"
WriteError == "EACCES"

Quiet ==
    [replies |-> << >>, written |-> "none", escaped |-> FALSE, event |-> "none",
     logged |-> << >>]

\* await interaction.reply(kind) as the last statement of a command, inside
\* the try of the interactionCreate listener; its catch logs and, when the
\* interaction was not replied to, replies 'An error occurred.'
Reply(kind, n, d, written) ==
    [replies |-> IF d = "ok" THEN <<Msg(kind, n)>>
                 ELSE IF d = "fail" THEN <<Msg("error", 0)>> ELSE << >>,
     written |-> written,
     escaped |-> (d = "failfail"),
     event |-> "none",
     logged |-> IF d = "ok" THEN << >> ELSE <<Log("commandError", <<DiscordError>>)>>]

NoCollector == "none"

\* The due time of a timer that is not set.
NoTimer == -1
NoTimers == [deleteReply |-> NoTimer, collector |-> NoTimer]

Init ==
    /\ disk \in InitialStores
    /\ userData = Parse(disk)
    /\ ACTIVE_SESSIONS = {}
    /\ handlers = [i \in Ids |-> IdleHandler]
    /\ nextId = 0
    /\ collectors = [i \in Ids |-> NoCollector]
    /\ tasks = {}
    /\ timers = [i \in Ids |-> NoTimers]
    /\ clock = 0
    /\ out = Quiet

\* --------------------------------------------------------- slash commands
\* Every command takes the next handler slot; a command that only replies
\* has returned when its step ends and leaves the slot idle.
TooLongOffByOne(charCount) == charCount >= charLimit
TooLong(charCount) == charCount > charLimit

\* case 'setprompt'
SetPrompt(u, prompt) ==
    /\ nextId < MaxInteractions
    /\ nextId' = nextId + 1
    /\ LET ud == LazyInit(userData, u)
       IN  IF TooLong(prompt)
           THEN /\ userData' = ud
                /\ \E d \in Deliveries : out' = Reply("tooLong", prompt, d, "none")
                /\ UNCHANGED handlers
           ELSE /\ userData' = [ud EXCEPT ![u].promptId = prompt]
                /\ handlers' = [handlers EXCEPT
                      ![nextId'] = StartSave([NewHandler(u, "setprompt") EXCEPT
                                               !.prompt = prompt], userData')]
                /\ out' = Quiet
    /\ UNCHANGED <<disk, ACTIVE_SESSIONS, collectors, tasks, timers, clock>>

\* case 'setkey'
SetKey(u, key, iv) ==
    /\ nextId < MaxInteractions
    /\ nextId' = nextId + 1
    /\ userData' = [LazyInit(userData, u) EXCEPT ![u].openaiKey = encrypt(key, iv)]
    /\ handlers' = [handlers EXCEPT
                      ![nextId'] = StartSave([NewHandler(u, "setkey") EXCEPT
                                               !.openaiKey = key], userData')]
    /\ out' = Quiet
    /\ UNCHANGED <<disk, ACTIVE_SESSIONS, collectors, tasks, timers, clock>>

\* if (userData[userId].promptId) / if (userData[userId].openaiKey)
FieldPresentAlways(rec, field) == TRUE
FieldPresent(rec, field) ==
    IF field = "promptId" THEN Truthy(rec.promptId) ELSE rec.openaiKey # NoToken

\* case 'deleteprompt' / case 'deletekey'
Delete(u, field) ==
    /\ nextId < MaxInteractions
    /\ nextId' = nextId + 1
    /\ LET ud == LazyInit(userData, u)
           cmd == IF field = "promptId" THEN "deleteprompt" ELSE "deletekey"
           present == FieldPresent(ud[u], field)
       IN  IF present
           THEN /\ userData' = [ud EXCEPT ![u] =
                                  IF field = "promptId"
                                  THEN [@ EXCEPT !.promptId = UndefinedPrompt]
                                  ELSE [@ EXCEPT !.openaiKey = NoToken]]
                /\ handlers' = [handlers EXCEPT
                      ![nextId'] = StartSave(NewHandler(u, cmd), userData')]
                /\ out' = Quiet
           ELSE /\ userData' = ud
                /\ \E d \in Deliveries :
                     out' = Reply(IF field = "promptId" THEN "noPromptToDelete"
                                  ELSE "noKeyToDelete", 0, d, "none")
                /\ UNCHANGED handlers
    /\ UNCHANGED <<disk, ACTIVE_SESSIONS, collectors, tasks, timers, clock>>

DeletePrompt(u) == Delete(u, "promptId")
DeleteKey(u) == Delete(u, "openaiKey")

\* case 'promptlimit' / case 'info' / case 'help': a reply only
ReadOnly(u) ==
    /\ nextId < MaxInteractions
    /\ nextId' = nextId + 1
    /\ userData' = LazyInit(userData, u)
    /\ \E d \in Deliveries : out' = Reply("text", 0, d, "none")
    /\ UNCHANGED <<disk, ACTIVE_SESSIONS, handlers, collectors, tasks, timers, clock>>

\* ACTIVE_SESSIONS.has(userId) / ACTIVE_SESSIONS.add(userId)
Has(sessions, u) == u \in sessions
Admit(sessions, u) == sessions \cup {u}

\* Denial with the session check skipped when a prompt is given inline.
DenialInlineBypass(sessions, rec, u, inline) ==
    IF ~Truthy(inline) /\ u \in sessions THEN "conflict"
    ELSE IF rec.openaiKey = NoToken THEN "noKey"
    ELSE IF decrypt(rec.openaiKey) = DecryptError THEN "badKey"
    ELSE IF ~Truthy(inline) /\ ~Truthy(rec.promptId) THEN "noPrompt"
    ELSE "none"

\* Denial without the catch around decrypt.
DenialNoDecryptCheck(sessions, rec, u, inline) ==
    IF u \in sessions THEN "conflict"
    ELSE IF rec.openaiKey = NoToken THEN "noKey"
    ELSE IF ~Truthy(inline) /\ ~Truthy(rec.promptId) THEN "noPrompt"
    ELSE "none"

\* The denial handleChatCommand answers with, or "none": the checks of
\* lines 144-178 in their order.
Denial(sessions, rec, u, inline) ==
    IF Has(sessions, u) THEN "conflict"
    ELSE IF rec.openaiKey = NoToken THEN "noKey"
    ELSE IF decrypt(rec.openaiKey) = DecryptError THEN "badKey"
    ELSE IF ~Truthy(inline) /\ ~Truthy(rec.promptId) THEN "noPrompt"
    ELSE "none"

\* handleChatCommand up to its first await
handleChatCommand(u, channel, inline) ==
    /\ nextId < MaxInteractions
    /\ nextId' = nextId + 1
    /\ LET ud == LazyInit(userData, u)
           h  == [NewHandler(u, "chat") EXCEPT
                     !.channel = channel, !.openaiKey = decrypt(ud[u].openaiKey)]
           denial == Denial(ACTIVE_SESSIONS, ud[u], u, inline)
       IN  IF denial # "none"
           THEN /\ userData' = ud
                /\ \E d \in Deliveries : out' = Reply(denial, 0, d, "none")
                /\ UNCHANGED <<ACTIVE_SESSIONS, handlers>>
           ELSE IF Truthy(inline)
           THEN /\ userData' = [ud EXCEPT ![u].promptId = inline]
                /\ handlers' = [handlers EXCEPT ![nextId'] =
                      StartSave([h EXCEPT !.prompt = inline], userData')]
                /\ out' = Quiet
                /\ UNCHANGED ACTIVE_SESSIONS
           ELSE /\ userData' = ud
                /\ ACTIVE_SESSIONS' = Admit(ACTIVE_SESSIONS, u)
                /\ handlers' = [handlers EXCEPT ![nextId'] =
                      [h EXCEPT !.pc = "announce", !.prompt = ud[u].promptId]]
                /\ out' = Quiet
    /\ UNCHANGED <<disk, collectors, tasks, timers, clock>>

\* ------------------------------------------------- continuations of commands
\* What each command replies after `await saveUserData()`; the result of the
\* write does not reach the command, saveUserData catches and logs it.
SavedReply(cmd, ok) ==
    CASE cmd = "setprompt"    -> "promptSaved"
      [] cmd = "setkey"       -> "keySaved"
      [] cmd = "deleteprompt" -> "promptDeleted"
      [] cmd = "deletekey"    -> "keyDeleted"

\* The line saveUserData logs.
SaveLog(ok) == IF ok THEN Log("saved", << >>) ELSE Log("saveFailed", <<WriteError>>)

\* logMessage(`User ${userId} saved an API key.`)
KeySavedLogWithKey(u, key) == Log("keySaved", <<u, key>>)
KeySavedLog(u, key) == Log("keySaved", <<u>>)

\* The line a command logs after `await saveUserData()`; /chat logs none.
CommandLog(h) ==
    CASE h.cmd = "setprompt"    -> <<Log("promptSaved", <<h.user>>)>>
      [] h.cmd = "setkey"       -> <<KeySavedLog(h.user, h.openaiKey)>>
      [] h.cmd = "deleteprompt" -> <<Log("promptDeleted", <<h.user>>)>>
      [] h.cmd = "deletekey"    -> <<Log("keyDeleted", <<h.user>>)>>
      [] OTHER                  -> << >>

\* saveUserData() from the completion of writeFile, and what the command
\* does after `await saveUserData()`.
saveUserData(id, ok) ==
    /\ handlers[id].pc = "save"
    /\ disk' = IF ok THEN handlers[id].content ELSE disk
    /\ LET h == handlers[id]
           written == IF ok THEN "ok" ELSE "failed"
           logged == <<SaveLog(ok)>> \o CommandLog(h)
       IN  IF h.cmd = "chat"
           THEN /\ ACTIVE_SESSIONS' = Admit(ACTIVE_SESSIONS, h.user)
                /\ handlers' = [handlers EXCEPT ![id] =
                       [h EXCEPT !.pc = "announce", !.content = Stringify(EmptyStore)]]
                /\ out' = [Quiet EXCEPT !.written = written, !.logged = logged]
           ELSE /\ handlers' = [handlers EXCEPT ![id] = DoneHandler]
                /\ \E d \in Deliveries :
                     out' = [Reply(SavedReply(h.cmd, ok),
                                   IF h.cmd = "setprompt" THEN h.prompt ELSE 0, d, written)
                             EXCEPT !.logged = logged \o @]
                /\ UNCHANGED ACTIVE_SESSIONS
    /\ UNCHANGED <<userData, nextId, collectors, tasks, timers, clock>>

\* const replyMsg = await interaction.reply({... fetchReply: true ...});
\* setTimeout(() => interaction.deleteReply().catch(() => {}), 60000);
\* a rejection of the reply is caught by the interactionCreate listener.
Announce(id, d) ==
    /\ handlers[id].pc = "announce"
    /\ handlers' = [handlers EXCEPT ![id] =
          IF d = "ok" THEN [@ EXCEPT !.pc = "fetch"] ELSE DoneHandler]
    /\ timers' = IF d = "ok"
                 THEN [timers EXCEPT ![id].deleteReply = clock + ReplyLifetime]
                 ELSE timers
    /\ out' = Reply("announce", handlers[id].prompt, d, "none")
    /\ UNCHANGED <<userData, disk, ACTIVE_SESSIONS, nextId, collectors, tasks, clock>>

\* The 60000 ms timer fires: interaction.deleteReply().catch(() => {})
DeleteReply(id) ==
    /\ timers[id].deleteReply # NoTimer
    /\ timers' = [timers EXCEPT ![id].deleteReply = NoTimer]
    /\ out' = Quiet
    /\ UNCHANGED <<userData, disk, ACTIVE_SESSIONS, handlers, nextId, collectors,
                   tasks, clock>>

\* const channel = await client.channels.fetch(interaction.channelId), then
\* channel.createMessageCollector({ filter, time: 300000 }); a rejection is
\* caught by the interactionCreate listener, which logs it and, the
\* interaction being replied to already, sends nothing.
Fetch(id, ok) ==
    /\ handlers[id].pc = "fetch"
    /\ IF ok
       THEN /\ handlers' = [handlers EXCEPT ![id].pc = "collecting"]
            /\ collectors' = [collectors EXCEPT ![id] = "live"]
            /\ timers' = [timers EXCEPT ![id].collector = clock + CollectorTime]
            /\ out' = Quiet
       ELSE /\ handlers' = [handlers EXCEPT ![id] = DoneHandler]
            /\ out' = [Quiet EXCEPT !.logged = <<Log("commandError", <<DiscordError>>)>>]
            /\ UNCHANGED <<collectors, timers>>
    /\ UNCHANGED <<userData, disk, ACTIVE_SESSIONS, nextId, tasks, clock>>

\* ---------------------------------------------------------------- collector
\* Message contents are sequences of characters.
Contents ==
    { <<"e", "x", "i", "t">>,
      <<" ", "S", "t", "o", "p", " ">>,
      <<" ", "H", "i", " ">> }

IsSpace(c) == c = " "

RECURSIVE TrimStart(_)
TrimStart(s) == IF s # << >> /\ IsSpace(Head(s)) THEN TrimStart(Tail(s)) ELSE s

RECURSIVE TrimEnd(_)
TrimEnd(s) ==
    IF s # << >> /\ IsSpace(s[Len(s)]) THEN TrimEnd(SubSeq(s, 1, Len(s) - 1)) ELSE s

\* m.content.trim()
Trim(s) == TrimEnd(TrimStart(s))

LowerChar(c) ==
    CASE c = "E" -> "e" [] c = "X" -> "x" [] c = "I" -> "i" [] c = "T" -> "t"
      [] c = "S" -> "s" [] c = "O" -> "o" [] c = "P" -> "p" [] c = "H" -> "h"
      [] OTHER -> c

ToLowerCase(s) == [i \in 1..Len(s) |-> LowerChar(s[i])]

ExitKeywords == { <<"e", "x", "i", "t">>, <<"s", "t", "o", "p">> }

\* ['exit', 'stop'].includes(userMsg.toLowerCase())
IsExit(userMsg) == ToLowerCase(userMsg) \in ExitKeywords

\* const filter = m => m.author.id === userId && m.channelId === interaction.channelId
filter(id, author, channel) ==
    author = handlers[id].user /\ channel = handlers[id].channel

Live(id) == collectors[id] = "live"

\* collector.on('end'): ACTIVE_SESSIONS.delete(userId), the log line, and the
\* notice sent to the channel.
ReleaseForgotten(sessions, u) == sessions
Release(sessions, u) == sessions \ {u}

EndNotice(reason) == <<Msg("expired", 0)>>

EndLog(u) == <<Log("sessionEnded", <<u>>)>>

OnEnd(cs, id, reason) == [cs EXCEPT ![id] = "ended"]

\* The collector's own timer after the collector has taken a message: the
\* `time` option is not the `idle` option, collecting does not touch it.
TimerResetOnCollect(due, now) == now + CollectorTime
TimerAfterCollect(due, now) == due

\* A message arrives in a channel: every live collector whose filter accepts
\* it runs its 'collect' callback up to the first await.  afterExit records
\* that the collector had an exit keyword being acknowledged at that moment.
MessageSlots == 1..MaxTasks
FreeSlots(slots) == {m \in slots : \A t \in tasks : t.msg # m}

NoPayload == [authorization |-> NoKey, messages |-> << >>]

MessageCreate(author, channel, content, slots) ==
    /\ LET accepting == {id \in Ids : Live(id) /\ filter(id, author, channel)}
           userMsg == Trim(content)
       IN  IF accepting = {} THEN UNCHANGED <<tasks, timers>>
           ELSE /\ FreeSlots(slots) # {}
                /\ LET m == CHOOSE n \in FreeSlots(slots) :
                                \A k \in FreeSlots(slots) : n <= k
                   IN  tasks' = tasks \cup
                          { [msg |-> m, col |-> id, author |-> author, channel |-> channel,
                             content |-> content, userMsg |-> userMsg,
                             payload |-> NoPayload,
                             afterExit |-> \E e \in tasks : e.col = id /\ e.pc = "ack",
                             pc |-> IF IsExit(userMsg) THEN "ack" ELSE "typing"]
                            : id \in accepting }
                /\ timers' = [id \in Ids |->
                      IF id \in accepting
                      THEN [timers[id] EXCEPT
                              !.collector = TimerAfterCollect(@, clock)]
                      ELSE timers[id]]
    /\ out' = Quiet
    /\ UNCHANGED <<userData, disk, ACTIVE_SESSIONS, handlers, nextId, collectors, clock>>

\* await m.reply('Chat session ended.'); collector.stop();
\* stop() does nothing on a collector that has already ended, and clears the
\* timer of one it ends.  A rejection of the reply leaves the callback:
\* stop() is not reached.
ExitAck(t, ok) ==
    /\ t \in tasks /\ t.pc = "ack"
    /\ tasks' = tasks \ {t}
    /\ LET u == handlers[t.col].user
           stops == ok /\ Live(t.col)
       IN  /\ collectors' = IF stops THEN OnEnd(collectors, t.col, "user") ELSE collectors
           /\ ACTIVE_SESSIONS' = IF stops THEN Release(ACTIVE_SESSIONS, u)
                                 ELSE ACTIVE_SESSIONS
           /\ timers' = IF stops THEN [timers EXCEPT ![t.col].collector = NoTimer]
                        ELSE timers
           /\ out' = [Quiet EXCEPT
                        !.replies = IF ~ok THEN << >>
                                    ELSE IF stops THEN <<Msg("ended", 0)>> \o EndNotice("user")
                                    ELSE <<Msg("ended", 0)>>,
                        !.escaped = ~ok,
                        !.logged = IF stops THEN EndLog(u) ELSE << >>]
    /\ UNCHANGED <<userData, disk, handlers, nextId, clock>>

\* const payload = {...} and the headers of https.request: the closure's
\* prompt and openaiKey, and the trimmed content of the message.
PayloadFromStore(t) ==
    [authorization |-> handlers[t.col].openaiKey,
     messages |-> << [role |-> "system",
                      content |-> userData[handlers[t.col].user].promptId],
                     [role |-> "user", content |-> t.userMsg] >>]
Payload(t) ==
    [authorization |-> handlers[t.col].openaiKey,
     messages |-> << [role |-> "system", content |-> handlers[t.col].prompt],
                     [role |-> "user", content |-> t.userMsg] >>]

\* await m.channel.sendTyping(); then the request is written and ended.  A
\* rejection of sendTyping leaves the callback, no request is made.
Typing(t, ok) ==
    /\ t \in tasks /\ t.pc = "typing"
    /\ tasks' = (tasks \ {t}) \cup
                (IF ok THEN {[t EXCEPT !.pc = "request", !.payload = Payload(t)]} ELSE {})
    /\ out' = [Quiet EXCEPT !.escaped = ~ok]
    /\ UNCHANGED <<userData, disk, ACTIVE_SESSIONS, handlers, nextId, collectors,
                   timers, clock>>

BackendOutcomes == {"content", "noContent", "unparseable", "transportError"}

\* The reply each outcome of the request leads to: res.on('end') with its
\* try/catch, and req.on('error').
BackendReply(outcome) ==
    CASE outcome = "content"        -> "completion"
      [] outcome = "noContent"      -> "noResponse"
      [] outcome = "unparseable"    -> "parseFallback"
      [] outcome = "transportError" -> "transportFallback"

\* Whether an outcome of the request stops the collector: no callback of the
\* request calls collector.stop().
BackendStopsOnError(outcome) == outcome = "transportError"
BackendStops(outcome) == FALSE

\* The response (or the error) of the request arrives and is answered.  A
\* rejected m.reply inside the try is answered from its catch; a rejected
\* m.reply in the catch or in the error callback leaves the callback.
Backend(t, outcome, d) ==
    /\ t \in tasks /\ t.pc = "request"
    /\ tasks' = tasks \ {t}
    /\ LET inTry == outcome \in {"content", "noContent"}
           u == handlers[t.col].user
           stops == BackendStops(outcome) /\ Live(t.col)
           replies == IF d = "ok" THEN <<Msg(BackendReply(outcome), 0)>>
                      ELSE IF d = "fail" /\ inTry THEN <<Msg("parseFallback", 0)>>
                      ELSE << >>
       IN  /\ d = "failfail" => inTry
           /\ collectors' = IF stops THEN OnEnd(collectors, t.col, "error") ELSE collectors
           /\ ACTIVE_SESSIONS' = IF stops THEN Release(ACTIVE_SESSIONS, u)
                                 ELSE ACTIVE_SESSIONS
           /\ timers' = IF stops THEN [timers EXCEPT ![t.col].collector = NoTimer]
                        ELSE timers
           /\ out' = [replies |-> IF stops THEN replies \o EndNotice("error") ELSE replies,
                      written |-> "none", escaped |-> (replies = << >>),
                      event |-> outcome,
                      logged |-> IF stops THEN EndLog(u) ELSE << >>]
    /\ UNCHANGED <<userData, disk, handlers, nextId, clock>>

\* The collector's 300000 ms timer fires.
Timeout(id) ==
    /\ Live(id)
    /\ collectors' = OnEnd(collectors, id, "time")
    /\ ACTIVE_SESSIONS' = Release(ACTIVE_SESSIONS, handlers[id].user)
    /\ timers' = [timers EXCEPT ![id].collector = NoTimer]
    /\ out' = [Quiet EXCEPT !.replies = EndNotice("time"),
                            !.logged = EndLog(handlers[id].user)]
    /\ UNCHANGED <<userData, disk, handlers, nextId, tasks, clock>>

\* ------------------------------------------------------------ specification
\* Spec leaves the time of day out: a timer that is set may fire at any later
\* step, and the clock stands still.
Next ==
    \/ \E u \in Users, p \in PromptInputs : SetPrompt(u, p)
    \/ \E u \in Users, k \in RawKeys, iv \in IVs : SetKey(u, k, iv)
    \/ \E u \in Users : DeletePrompt(u)
    \/ \E u \in Users : DeleteKey(u)
    \/ \E u \in Users : ReadOnly(u)
    \/ \E u \in Users, ch \in CommandChannels, p \in PromptInputs \cup {UndefinedPrompt} :
          handleChatCommand(u, ch, p)
    \/ \E id \in Ids, ok \in BOOLEAN : saveUserData(id, ok)
    \/ \E id \in Ids, d \in Deliveries : Announce(id, d)
    \/ \E id \in Ids : DeleteReply(id)
    \/ \E id \in Ids, ok \in BOOLEAN : Fetch(id, ok)
    \/ \E a \in Users, ch \in Channels, c \in Contents :
          MessageCreate(a, ch, c, MessageSlots)
    \/ \E t \in tasks, ok \in BOOLEAN : ExitAck(t, ok)
    \/ \E t \in tasks, ok \in BOOLEAN : Typing(t, ok)
    \/ \E t \in tasks, o \in BackendOutcomes, d \in Deliveries : Backend(t, o, d)
    \/ \E id \in Ids : Timeout(id)

Spec == Init /\ [][Next]_vars

\* I/O that was started completes or fails, and a timer that was set fires.
Fairness ==
    /\ WF_vars(\E id \in Ids, ok \in BOOLEAN : saveUserData(id, ok))
    /\ WF_vars(\E id \in Ids, d \in Deliveries : Announce(id, d))
    /\ WF_vars(\E id \in Ids : DeleteReply(id))
    /\ WF_vars(\E id \in Ids, ok \in BOOLEAN : Fetch(id, ok))
    /\ WF_vars(\E t \in tasks, ok \in BOOLEAN : ExitAck(t, ok))
    /\ WF_vars(\E t \in tasks, ok \in BOOLEAN : Typing(t, ok))
    /\ WF_vars(\E t \in tasks, o \in BackendOutcomes, d \in Deliveries : Backend(t, o, d))
    /\ WF_vars(\E id \in Ids : Timeout(id))

FairSpec == Spec /\ Fairness

\* ------------------------------------------------------- sessions under time
\* TimedSpec follows the sessions of a store that holds a key and a prompt
\* with the clock running: a timer fires when the clock reaches its due
\* time, and the clock does not pass a timer that is due.
SessionSlots == 1..MaxSessionTasks

TimedInit == Init /\ disk = StoreWithKey

Due(id) == {timers[id].deleteReply, timers[id].collector} \ {NoTimer}

Tick ==
    /\ clock < MaxTicks * ReplyLifetime
    /\ \A id \in Ids : clock \notin Due(id)
    /\ clock' = clock + ReplyLifetime
    /\ out' = Quiet
    /\ UNCHANGED <<userData, disk, ACTIVE_SESSIONS, handlers, nextId, collectors,
                   tasks, timers>>

TimedTimeout(id) == clock = timers[id].collector /\ Timeout(id)

TimedDeleteReply(id) == clock = timers[id].deleteReply /\ DeleteReply(id)

TimedNext ==
    \/ \E u \in Users, ch \in CommandChannels : handleChatCommand(u, ch, UndefinedPrompt)
    \/ \E id \in Ids, d \in Deliveries : Announce(id, d)
    \/ \E id \in Ids, ok \in BOOLEAN : Fetch(id, ok)
    \/ \E a \in Users, ch \in Channels, c \in Contents :
          MessageCreate(a, ch, c, SessionSlots)
    \/ \E t \in tasks, ok \in BOOLEAN : ExitAck(t, ok)
    \/ \E t \in tasks, ok \in BOOLEAN : Typing(t, ok)
    \/ \E t \in tasks, o \in BackendOutcomes, d \in Deliveries : Backend(t, o, d)
    \/ \E id \in Ids : TimedTimeout(id)
    \/ \E id \in Ids : TimedDeleteReply(id)
    \/ Tick

TimedSpec == TimedInit /\ [][TimedNext]_vars

\* ------------------------------------------------------------------ helpers
Kinds(o) == {o.replies[i].kind : i \in 1..Len(o.replies)}

\* The collectors of user u that are collecting.
LiveCollectors(u) == {id \in Ids : Live(id) /\ handlers[id].user = u}

\* This step received a slash command.
CommandStep == nextId' = nextId + 1

\* --------------------------------------------------------------------- C1
\* C1: at every reachable state a user id has at most one live message
\* collector, whatever the interleaving of that user's /chat commands.
C1_AtMostOneCollector == \A u \in Users : Cardinality(LiveCollectors(u)) <= 1

\* --------------------------------------------------------------------- C2
\* C2: every user id that is added to ACTIVE_SESSIONS is eventually removed
\* from it, when timers fire and pending I/O completes or fails.
C2_EverySessionReleased ==
    \A u \in Users : (u \in ACTIVE_SESSIONS) ~> (u \notin ACTIVE_SESSIONS)

\* --------------------------------------------------------------------- C3
\* C3: every promptId held in userData has at most charLimit characters.
C3_PromptWithinLimit ==
    \A u \in DOMAIN userData : userData[u].promptId <= charLimit

\* --------------------------------------------------------------------- C4
\* C4: when a collector terminates, by exit keyword or by timeout, its user
\* id is removed from ACTIVE_SESSIONS, and a /chat of that user with a
\* decryptable key and a prompt available is not denied from then on.
ChatArgs == PromptInputs \cup {UndefinedPrompt}

C4_EndReleasesAndReadmits ==
    [][\A id \in Ids :
         (Live(id) /\ collectors'[id] = "ended") =>
            LET u == handlers[id].user
                rec == userData'[u]
            IN  /\ u \notin ACTIVE_SESSIONS'
                /\ \A inline \in ChatArgs :
                     ( /\ rec.openaiKey # NoToken
                       /\ decrypt(rec.openaiKey) # DecryptError
                       /\ Truthy(inline) \/ Truthy(rec.promptId) )
                     => Denial(ACTIVE_SESSIONS', rec, u, inline) = "none"]_vars

\* A user whose collector has ended holds a session again, admitted by a
\* /chat without inline prompt (check and add in one step).
C4_Witness ==
    \E i, j \in Ids :
        /\ i < j
        /\ collectors[i] = "ended"
        /\ handlers[i].prompt = 1
        /\ handlers[j].user = handlers[i].user
        /\ handlers[j].cmd = "chat"
        /\ handlers[j].prompt = 1
        /\ handlers[j].pc \in {"announce", "fetch", "collecting"}
        /\ handlers[j].user \in ACTIVE_SESSIONS

\* --------------------------------------------------------------------- C5
\* C5: a /chat issued while its user id is in ACTIVE_SESSIONS is not admitted,
\* and the step that answers 'already have an active session' changes neither
\* ACTIVE_SESSIONS, userData, the durable store, nor any collector, handler
\* closure or callback in flight.
C5_ConflictChangesNothing ==
    [][/\ \A u \in ACTIVE_SESSIONS :
            ~(CommandStep /\ handlers'[nextId'].cmd = "chat" /\ handlers'[nextId'].user = u)
       /\ (CommandStep /\ "conflict" \in Kinds(out')) =>
            /\ ACTIVE_SESSIONS # {}
            /\ UNCHANGED <<ACTIVE_SESSIONS, userData, disk, collectors, handlers, tasks>>]_vars

C5_Witness ==
    /\ "conflict" \in Kinds(out)
    /\ \E id \in Ids : Live(id) /\ handlers[id].user \in ACTIVE_SESSIONS

\* --------------------------------------------------------------------- C6
\* C6: a collector ends only in the step that acknowledges an exit keyword
\* of its admitted user in its channel, or in the step of its timeout; the
\* step that answers a backend request ends no collector and releases no
\* session, and answers a transport error, an unparseable response and a
\* response without content with the fallback of that outcome.
Fallback(event) ==
    CASE event = "transportError" -> {"transportFallback"}
      [] event = "unparseable"    -> {"parseFallback"}
      [] event = "noContent"      -> {"noResponse", "parseFallback"}
      [] OTHER                    -> {"completion", "parseFallback"}

C6_OnlyExitOrTimeoutEnds ==
    [][/\ \A id \in Ids :
            (Live(id) /\ collectors'[id] # "live") =>
               \/ \E t \in tasks \ tasks' :
                     /\ t.col = id /\ t.pc = "ack"
                     /\ ToLowerCase(t.userMsg) \in ExitKeywords
                     /\ t.author = handlers[id].user
                     /\ t.channel = handlers[id].channel
                     /\ "ended" \in Kinds(out')
               \/ tasks' = tasks /\ out'.event = "none" /\ Kinds(out') = {"expired"}
       /\ \A t \in tasks :
            (t.pc = "request" /\ t \notin tasks') =>
               /\ UNCHANGED <<collectors, ACTIVE_SESSIONS>>
               /\ out'.event \in BackendOutcomes
               /\ ~out'.escaped => Kinds(out') \subseteq Fallback(out'.event)
               /\ ~out'.escaped => Len(out'.replies) = 1]_vars

\* A transport error was answered with its fallback, and the session goes on.
C6_Witness ==
    /\ out.event = "transportError"
    /\ Kinds(out) = {"transportFallback"}
    /\ \A id \in Ids : collectors[id] # "ended"
    /\ \E id \in Ids : Live(id) /\ handlers[id].user \in ACTIVE_SESSIONS

\* --------------------------------------------------------------------- C7
\* C7: a session terminated by an exit keyword emits the exit
\* acknowledgement and not the expiry notice.
C7_ExitSendsNoExpiryNotice == "ended" \in Kinds(out) => "expired" \notin Kinds(out)

\* --------------------------------------------------------------------- C8
\* C8: setprompt answers 'too long' only for more than charLimit characters,
\* and then starts no write and leaves the store, every stored promptId and
\* every other record as they were; a setprompt that is accepted holds at
\* most charLimit characters, is stored as the user's promptId and is
\* written with the store, which a successful write puts on disk.
C8_SetPromptBoundary ==
    [][/\ (CommandStep /\ "tooLong" \in Kinds(out')) =>
            /\ out'.replies[1].n > charLimit
            /\ UNCHANGED <<disk, handlers, ACTIVE_SESSIONS>>
            /\ \A u \in DOMAIN userData : userData'[u] = userData[u]
            /\ \A u \in DOMAIN userData' \ DOMAIN userData : userData'[u] = EmptyRecord
       /\ (CommandStep /\ handlers'[nextId'].cmd = "setprompt") =>
            LET h == handlers'[nextId']
            IN  /\ h.prompt <= charLimit
                /\ h.pc = "save"
                /\ userData'[h.user].promptId = h.prompt
                /\ h.content = Stringify(userData')
                /\ \A u \in DOMAIN userData \ {h.user} : userData'[u] = userData[u]
       /\ \A id \in Ids :
            ( /\ handlers[id].cmd = "setprompt" /\ handlers[id].pc = "save"
              /\ handlers'[id].pc # "save" /\ out'.written = "ok" )
            => disk' = handlers[id].content]_vars

\* A prompt of exactly charLimit characters is stored and being written,
\* and one of charLimit + 1 characters has just been rejected.
C8_Witness ==
    /\ \E id \in Ids :
          /\ handlers[id].cmd = "setprompt" /\ handlers[id].pc = "save"
          /\ handlers[id].prompt = charLimit
          /\ userData[handlers[id].user].promptId = charLimit
    /\ Kinds(out) = {"tooLong"}
    /\ out.replies[1].n = charLimit + 1

\* --------------------------------------------------------------------- C9
\* C9: when the write of a mutating command fails, the user is not told that
\* the data was saved or deleted.
SuccessReplies == {"promptSaved", "keySaved", "promptDeleted", "keyDeleted"}

C9_FailedWriteReportedFailed ==
    out.written = "failed" => Kinds(out) \cap SuccessReplies = {}

\* -------------------------------------------------------------------- C10
\* A /chat is admitted only for a stored key that decrypts and a non-empty
\* prompt, inline or stored.
AdmittedOnlyWithKeyAndPrompt ==
    (CommandStep /\ handlers'[nextId'].cmd = "chat") =>
        LET h == handlers'[nextId']
            u == h.user
        IN  /\ u \in DOMAIN userData
            /\ userData[u].openaiKey # NoToken
            /\ decrypt(userData[u].openaiKey) # DecryptError
            /\ h.openaiKey = decrypt(userData[u].openaiKey)
            /\ Truthy(h.prompt)
            /\ h.prompt \in {userData[u].promptId, userData'[u].promptId}

DenialReplies == {"noKey", "badKey", "noPrompt"}
Denied == CommandStep /\ Kinds(out') \cap DenialReplies # {}

\* C10 as stated: each denial leaves ACTIVE_SESSIONS and userData unchanged
\* and creates no collector.
C10_DenialChangesNothing ==
    [][/\ AdmittedOnlyWithKeyAndPrompt
       /\ Denied => UNCHANGED <<ACTIVE_SESSIONS, userData, collectors, handlers>>]_vars

\* C10 (amended): each denial leaves ACTIVE_SESSIONS and every existing
\* record of userData unchanged and creates no collector; the only change to
\* userData is the empty record created for a user who had none.
C10_DenialKeepsRecords ==
    [][/\ AdmittedOnlyWithKeyAndPrompt
       /\ Denied =>
            /\ UNCHANGED <<ACTIVE_SESSIONS, collectors, handlers, disk>>
            /\ Len(out'.replies) = 1
            /\ \A u \in DOMAIN userData : userData'[u] = userData[u]
            /\ \A u \in DOMAIN userData' \ DOMAIN userData : userData'[u] = EmptyRecord]_vars

\* A user without a record was denied for the missing key, and has an empty
\* record now.
C10_Witness ==
    /\ Kinds(out) = {"noKey"}
    /\ \E u \in DOMAIN userData : userData[u] = EmptyRecord
    /\ ACTIVE_SESSIONS = {}

\* ------------------------------------------------- writes that all succeed
\* ReliableSpec is Spec with a file system on which no writeFile fails.
ReliableNext ==
    \/ \E u \in Users, p \in PromptInputs : SetPrompt(u, p)
    \/ \E u \in Users, k \in RawKeys, iv \in IVs : SetKey(u, k, iv)
    \/ \E u \in Users : DeletePrompt(u)
    \/ \E u \in Users : DeleteKey(u)
    \/ \E u \in Users : ReadOnly(u)
    \/ \E u \in Users, ch \in CommandChannels, p \in PromptInputs \cup {UndefinedPrompt} :
          handleChatCommand(u, ch, p)
    \/ \E id \in Ids : saveUserData(id, TRUE)
    \/ \E id \in Ids, d \in Deliveries : Announce(id, d)
    \/ \E id \in Ids : DeleteReply(id)
    \/ \E id \in Ids, ok \in BOOLEAN : Fetch(id, ok)
    \/ \E a \in Users, ch \in Channels, c \in Contents :
          MessageCreate(a, ch, c, MessageSlots)
    \/ \E t \in tasks, ok \in BOOLEAN : ExitAck(t, ok)
    \/ \E t \in tasks, ok \in BOOLEAN : Typing(t, ok)
    \/ \E t \in tasks, o \in BackendOutcomes, d \in Deliveries : Backend(t, o, d)
    \/ \E id \in Ids : Timeout(id)

ReliableSpec == Init /\ [][ReliableNext]_vars

\* ------------------------------------------------------------- the codec
\* CodecSpec applies encrypt and decrypt to texts, nonces and tokens drawn
\* from small sets; out holds the input and what the codec returned for it.
CodecStrings == {"", "sk-abc", "sk:abc", "<D800><DC00>", "<D800>", "sk-<DC00>abc"}
CodecIVs == {"iv1", "iv2", "iv3", "iv4", "iv5", "iv6"}

\* Strings without ':', one segment each: a nonce alone, a ciphertext alone,
\* a raw credential.
TokensWithoutColon ==
    {<<Hex([len |-> IV_LENGTH, bytes |-> iv])>> : iv \in CodecIVs}
      \cup {<<Hex(Cbc(ENCRYPTION_KEY, "iv1", Utf8Encode(s)))>> : s \in CodecStrings}
      \cup {<<[raw |-> s]>> : s \in CodecStrings}

CodecInit ==
    /\ userData = EmptyStore
    /\ disk = Stringify(EmptyStore)
    /\ ACTIVE_SESSIONS = {}
    /\ handlers = [i \in Ids |-> IdleHandler]
    /\ nextId = 0
    /\ collectors = [i \in Ids |-> NoCollector]
    /\ tasks = {}
    /\ timers = [i \in Ids |-> NoTimers]
    /\ clock = 0
    /\ \/ \E s \in CodecStrings, iv \in CodecIVs :
            out = [stage |-> "text", text |-> s, iv |-> iv, token |-> NoToken,
                   result |-> "none"]
       \/ \E token \in TokensWithoutColon :
            out = [stage |-> "token", text |-> "none", iv |-> "none", token |-> token,
                   result |-> "none"]

CodecEncrypt ==
    /\ out.stage = "text"
    /\ out' = [out EXCEPT !.stage = "encrypted", !.token = encrypt(out.text, out.iv)]
    /\ UNCHANGED <<userData, disk, ACTIVE_SESSIONS, handlers, nextId, collectors,
                   tasks, timers, clock>>

CodecDecrypt ==
    /\ out.stage \in {"encrypted", "token"}
    /\ out' = [out EXCEPT !.stage = "decrypted", !.result = decrypt(out.token)]
    /\ UNCHANGED <<userData, disk, ACTIVE_SESSIONS, handlers, nextId, collectors,
                   tasks, timers, clock>>

CodecNext == CodecEncrypt \/ CodecDecrypt

CodecSpec == CodecInit /\ [][CodecNext]_vars

\* -------------------------------------------------------------------- C11
\* What encrypt() returns for a credential: in this run, or in the run of an
\* earlier deployment that left its store behind.
EncryptOutputs ==
    { <<Hex([len |-> IV_LENGTH, bytes |-> iv]), Hex(Cbc(key, iv, Utf8Encode(k)))>> :
        key \in {ENCRYPTION_KEY, ForeignKey}, iv \in IVs \cup {"iv0"}, k \in RawKeys }

StoredKeys(store) ==
    {store[u]["openaiKey"] : u \in {v \in DOMAIN store : "openaiKey" \in DOMAIN store[v]}}

NoRawKeyStoredOrLogged ==
    /\ \A u \in DOMAIN userData :
          userData[u].openaiKey = NoToken \/ userData[u].openaiKey \in EncryptOutputs
    /\ StoredKeys(disk) \subseteq EncryptOutputs
    /\ \A id \in Ids : StoredKeys(handlers[id].content) \subseteq EncryptOutputs
    /\ \A i \in 1..Len(out.logged) :
          \A j \in 1..Len(out.logged[i].args) : out.logged[i].args[j] \notin RawKeys

\* C11: every openaiKey held in userData, being written or written to the
\* store is an output of encrypt(), a key that a command stores is
\* encrypt() of the credential given with a nonce of this run, and no line
\* passed to logMessage holds a raw credential.
C11_KeysEncryptedNeverLogged ==
    /\ []NoRawKeyStoredOrLogged
    /\ [][\A u \in DOMAIN userData' :
            ( /\ userData'[u].openaiKey # NoToken
              /\ u \in DOMAIN userData => userData'[u].openaiKey # userData[u].openaiKey )
            => \E k \in RawKeys, iv \in IVs : userData'[u].openaiKey = encrypt(k, iv)]_vars

\* setkey has written the store and logged its line.
C11_Witness ==
    /\ \E i \in 1..Len(out.logged) : out.logged[i].text = "keySaved"
    /\ out.written = "ok"
    /\ \E u \in DOMAIN disk :
          /\ "openaiKey" \in DOMAIN disk[u]
          /\ disk[u]["openaiKey"] = encrypt("sk-abc", "iv1")
          /\ userData[u].openaiKey = encrypt("sk-abc", "iv1")

\* -------------------------------------------------------------------- C12
\* C12: no rejection raised while a command or a collected message is
\* handled leaves its handler or callback uncaught.
C12_NoErrorEscapes == ~out.escaped

\* -------------------------------------------------------------------- C13
\* C13: decrypt(encrypt(s)) returns s for every string s and every nonce,
\* and decrypt of a token without ':' raises the error and returns no text.
C13_RoundTrip ==
    /\ out.stage = "encrypted" => Len(out.token) = 2
    /\ (out.stage = "decrypted" /\ out.text # "none") => out.result = out.text
    /\ (out.stage = "decrypted" /\ out.text = "none") => out.result = DecryptError

\* -------------------------------------------------------------------- C14
NothingToDelete == CommandStep /\ Kinds(out') \cap {"noPromptToDelete", "noKeyToDelete"} # {}

\* What a delete command of a present field does: the field is removed, the
\* record and its other field stay, and the store is being written.
DeletesPresentField ==
    \A id \in Ids :
       ( /\ CommandStep /\ id = nextId'
         /\ handlers'[id].cmd \in {"deleteprompt", "deletekey"} ) =>
          LET h == handlers'[id]
              u == h.user
              field == IF h.cmd = "deleteprompt" THEN "promptId" ELSE "openaiKey"
              other == IF h.cmd = "deleteprompt" THEN "openaiKey" ELSE "promptId"
          IN  /\ u \in DOMAIN userData /\ Present(userData[u], field)
              /\ u \in DOMAIN userData'
              /\ ~Present(userData'[u], field)
              /\ userData'[u][other] = userData[u][other]
              /\ \A v \in DOMAIN userData \ {u} : userData'[v] = userData[v]
              /\ h.pc = "save" /\ h.content = Stringify(userData')
              \* the same command again finds nothing to delete
              /\ ~FieldPresent(userData'[u], field)

\* C14 as stated: a delete command of an absent field mutates nothing,
\* starts no write and says there was nothing to delete.
C14_DeleteIdempotent ==
    [][/\ DeletesPresentField
       /\ NothingToDelete =>
            UNCHANGED <<userData, disk, handlers, ACTIVE_SESSIONS, collectors, tasks>>]_vars

\* C14 (amended): a delete command of an absent field changes no record that
\* exists, starts no write and says there was nothing to delete; the only
\* change to userData is the empty record created for a user who had none.
C14_DeleteKeepsRecords ==
    [][/\ DeletesPresentField
       /\ NothingToDelete =>
            /\ UNCHANGED <<disk, handlers, ACTIVE_SESSIONS, collectors, tasks>>
            /\ Len(out'.replies) = 1
            /\ \A u \in DOMAIN userData : userData'[u] = userData[u]
            /\ \A u \in DOMAIN userData' \ DOMAIN userData : userData'[u] = EmptyRecord]_vars

\* The prompt of a user was deleted and written, the key is still there, and
\* the command issued again has found nothing to delete.
C14_Witness ==
    /\ Kinds(out) = {"noPromptToDelete"}
    /\ \E u \in DOMAIN userData :
          /\ userData[u].promptId = UndefinedPrompt
          /\ userData[u].openaiKey # NoToken
          /\ \E id \in Ids : handlers[id].pc = "save" /\ handlers[id].cmd = "deleteprompt"
                             /\ handlers[id].user = u

\* -------------------------------------------------------------------- C15
\* C15: once a collector has ended its user id is out of ACTIVE_SESSIONS,
\* the collector takes no further message, and no timer set for that
\* session, the one that withdraws the announcement included, is pending.
C15_NoResourceAfterEnd ==
    [][/\ \A id \in Ids :
            (Live(id) /\ collectors'[id] = "ended") =>
               /\ handlers[id].user \notin ACTIVE_SESSIONS'
               /\ timers'[id] = NoTimers
       /\ \A t \in tasks' \ tasks :
            t.pc \in {"ack", "typing"} => Live(t.col)
       /\ \A id \in Ids :
            collectors[id] = "ended" => timers'[id] = timers[id]]_vars

\* -------------------------------------------------------------------- C16
EndsByTimeout(id) ==
    /\ Live(id) /\ collectors'[id] = "ended"
    /\ \A t \in tasks \ tasks' : ~(t.col = id /\ t.pc = "ack")

\* C16: the timer of a collector is set when the collector is created, for
\* CollectorTime later, and no message the collector takes moves it: a
\* collector that no exit keyword stops is live up to that time and ends at
\* it, whatever arrived in between.
C16_TimeoutFromCreation ==
    [][\A id \in Ids :
         /\ (~Live(id) /\ collectors'[id] = "live") =>
               timers'[id].collector = clock + CollectorTime
         /\ (Live(id) /\ collectors'[id] = "live") =>
               timers'[id].collector = timers[id].collector
         /\ collectors'[id] = "live" => clock' <= timers'[id].collector
         /\ EndsByTimeout(id) => clock = timers[id].collector]_vars

\* The collector created at 0 has ended by its timer at CollectorTime, with
\* a request for a message it took still in flight.
C16_Witness ==
    /\ clock = CollectorTime
    /\ collectors[1] = "ended"
    /\ Kinds(out) = {"expired"}
    /\ \E t \in tasks : t.col = 1 /\ t.pc = "request"

\* -------------------------------------------------------------------- C17
\* C17: a request in flight carries the system message of the prompt its
\* session was admitted with and the user message of the trimmed content of
\* one message of the admitted user in the session's channel, nothing else,
\* under the key decrypted at admission; the prompt and key of an open
\* session do not change, whatever its user stores or deletes meanwhile;
\* and a message of another user or channel starts no callback.
C17_RequestFixedAtAdmission ==
    /\ [](\A t \in tasks :
            LET h == handlers[t.col]
            IN  /\ t.author = h.user /\ t.channel = h.channel
                /\ t.content \in Contents /\ t.userMsg = Trim(t.content)
                /\ t.pc = "request" =>
                     /\ ~IsExit(t.userMsg)
                     /\ Len(t.payload.messages) = 2
                     /\ t.payload.messages[1] = [role |-> "system", content |-> h.prompt]
                     /\ t.payload.messages[2] = [role |-> "user", content |-> t.userMsg]
                     /\ t.payload.authorization = h.openaiKey
                     /\ h.openaiKey \in RawKeys
                     /\ Truthy(h.prompt))
    /\ [][\A id \in Ids :
            handlers[id].pc \in {"announce", "fetch", "collecting"} =>
               \/ handlers'[id] = DoneHandler
               \/ /\ handlers'[id].prompt = handlers[id].prompt
                  /\ handlers'[id].openaiKey = handlers[id].openaiKey
                  /\ handlers'[id].user = handlers[id].user
                  /\ handlers'[id].channel = handlers[id].channel]_vars

\* A request is in flight under the prompt of admission while the user has
\* stored another prompt since.
C17_Witness ==
    \E t \in tasks :
        /\ t.pc = "request"
        /\ t.payload.messages[1].content = 1
        /\ userData[handlers[t.col].user].promptId = charLimit
        /\ t.content = <<" ", "H", "i", " ">>
        /\ t.payload.messages[2].content = <<"H", "i">>

\* -------------------------------------------------------------------- C18
\* The callback of a collected message that is no exit keyword comes to its
\* end in this step.
Finished(t) ==
    /\ t \in tasks /\ t.pc \in {"typing", "request"}
    /\ \A t2 \in tasks' : ~(t2.msg = t.msg /\ t2.col = t.col)

\* C18: each collected message that is no exit keyword is answered with
\* exactly one reply: the completion (or the text standing in for an empty
\* one), the parse fallback or the transport fallback.
C18_ExactlyOneReply ==
    [][\A t \in tasks :
         Finished(t) =>
            /\ Len(out'.replies) = 1
            /\ Kinds(out') \subseteq
                 {"completion", "noResponse", "parseFallback", "transportFallback"}]_vars

\* -------------------------------------------------------------------- C19
\* C19: no request is made for a message that its collector took after an
\* exit keyword of the session, and no completion is delivered for a session
\* whose user id has been removed from ACTIVE_SESSIONS.
C19_NothingForwardedAfterExit ==
    /\ [](\A t \in tasks : t.pc = "request" => ~t.afterExit)
    /\ [][\A t \in tasks \ tasks' :
            (t.pc = "request" /\ "completion" \in Kinds(out')) =>
               handlers[t.col].user \in ACTIVE_SESSIONS]_vars

\* -------------------------------------------------------------------- C20
\* The records of a store that hold a field.
Data(store) == [u \in {v \in DOMAIN store : DOMAIN store[v] # {}} |-> store[u]]

\* C20: when no write fails, then whenever no write is pending the store on
\* disk holds the data of userData (records without a field set aside), in
\* whatever order overlapping writes complete.
C20_DiskFollowsMemory ==
    (\A id \in Ids : handlers[id].pc # "save") => Data(disk) = Data(Stringify(userData))
====
